---------------------------- MODULE Spec2Model ----------------------------
(***************************************************************************)
(* BurnEngine USB (src/main.rs): enumeration of removable USB block        *)
(* devices, the double-confirmation safety gate, and the supervised        *)
(* dd write / md5 verify.                                                  *)
(*                                                                         *)
(* Text the program inspects (device names, paths, sysfs file contents) is *)
(* a sequence of one-character strings, so that starts_with, contains,     *)
(* trim and parse are computed as the code computes them.  Text the        *)
(* program only passes along (mount points, model strings, digests) is a   *)
(* plain string.                                                           *)
(*                                                                         *)
(* Integers: TLC's integers are 32 bits wide, the program's are u64.  All  *)
(* sector counts and byte sizes drawn below stay under 2^31, so neither    *)
(* the u64 parse nor size_sectors * 512 overflows in the model.            *)
(***************************************************************************)
EXTENDS Integers, Sequences, FiniteSets, TLC

VARIABLES
    pc,         \* position of the controlling flow
    cli,        \* the parsed command line (struct Cli), an Option
    op,         \* the operation under way: "write", "verify", "list", "info" or ""
    verify,     \* the verify argument of do_write
    image,      \* the image file in use (Option): [path, size], size an Option
    devices,    \* Vec<UsbDevice> returned by / being built by detect_usb_drives
    device,     \* the UsbDevice the operation targets (Option)
    confirm,    \* what safety_confirm returned to its caller
    trace,      \* prompts shown, enumerations, external programs run and ended,
                \* completion messages shown, in order
    out,        \* command lines printed for the user, in order
    result,     \* the Result main returns
    dd,         \* the dd subprocess: [kind, state, code (Option), left, sent]
    isoMd5,     \* do_verify: the digest token of the image file
    pipe,       \* progress lines written by dd and not yet read by the parser
    parser,     \* the parser thread: "none", "run", "read" (in reader.read), "done"
    joined,     \* whether the controlling flow has joined the parser thread
    pos,        \* ProgressBar position
    running,    \* the cancellation flag (Arc<AtomicBool>)
    seen,       \* detect_usb_drives: names of the entries read so far
    devNodes,   \* history: names n whose node /dev/n existed when the entry was read
    usable,     \* history: names whose entry was removable, on usb, with a node, >= 100 MB
    bytes,      \* parser: bytes of dd's stderr not yet read
    lineBuf,    \* parser: the String line the bytes of the current line are pushed to
    consumed,   \* history: the bytes the parser has read, in order
    offsets,    \* history: the offsets the parser has handed to set_position
    imgData,    \* do_verify: the bytes of the image file
    media,      \* do_verify: the bytes of the device, from offset 0
    readBack,   \* do_verify: the bytes dd has piped to md5sum (Option)
    loads,      \* parser: how often the flag was loaded and seen true
    real,       \* detect_transport: what <sys_path>/device resolves to (Option)
    transportStr, \* detect_transport: the String returned ("" before the call)
    md5File,    \* do_verify: stdout of md5sum run on the image file
    md5Pipe     \* do_verify: stdout of md5sum run on the piped read-back

vars == <<pc, cli, op, verify, image, devices, device, confirm, trace, out,
          result, dd, isoMd5, pipe, parser, joined, pos, running, seen,
          devNodes, usable, bytes, lineBuf, consumed, offsets, imgData, media,
          readBack, loads, real, transportStr, md5File, md5Pipe>>

\* Option<T>: None is the empty set, Some(x) the singleton {x}
None == {}
Some(x) == {x}
Get(o) == CHOOSE x \in o : TRUE

-----------------------------------------------------------------------------
(* Bounds of the model. *)

\* directory entries one enumeration reads from /sys/block
MaxEntries == 2
\* lines of /proc/mounts read by the unmount phase
MaxMounts == 1
\* progress lines one dd run writes to its stderr
MaxLines == 1

-----------------------------------------------------------------------------
(* Program constants. *)

\* size file gives 512-byte sectors
SectorBytes == 512
\* devices smaller than this are skipped
MinDeviceBytes == 100000000

-----------------------------------------------------------------------------
(* Text helpers: str::starts_with, str::contains, str::trim, u64::from_str *)

StartsWith(s, p) ==
    /\ Len(s) >= Len(p)
    /\ SubSeq(s, 1, Len(p)) = p

Contains(s, p) ==
    \E i \in 1..(Len(s) - Len(p) + 1) : SubSeq(s, i, i + Len(p) - 1) = p

IsSpace(c) == c \in {" ", "\n", "\t", "\r"}

RECURSIVE TrimStart(_)
TrimStart(s) ==
    IF s # <<>> /\ IsSpace(Head(s)) THEN TrimStart(Tail(s)) ELSE s

RECURSIVE TrimEnd(_)
TrimEnd(s) ==
    IF s # <<>> /\ IsSpace(s[Len(s)]) THEN TrimEnd(SubSeq(s, 1, Len(s) - 1)) ELSE s

Trim(s) == TrimEnd(TrimStart(s))

Digits == {"0", "1", "2", "3", "4", "5", "6", "7", "8", "9"}

DigitVal(c) ==
    CASE c = "0" -> 0 [] c = "1" -> 1 [] c = "2" -> 2 [] c = "3" -> 3
      [] c = "4" -> 4 [] c = "5" -> 5 [] c = "6" -> 6 [] c = "7" -> 7
      [] c = "8" -> 8 [] c = "9" -> 9

RECURSIVE DecimalValue(_)
DecimalValue(s) ==
    IF s = <<>> THEN 0
    ELSE 10 * DecimalValue(SubSeq(s, 1, Len(s) - 1)) + DigitVal(s[Len(s)])

\* s.parse::<u64>().ok(): an optional '+', then one or more digits; None otherwise
ParseU64(s) ==
    LET body == IF s # <<>> /\ Head(s) = "+" THEN Tail(s) ELSE s
    IN  IF body # <<>> /\ \A i \in 1..Len(body) : body[i] \in Digits
        THEN Some(DecimalValue(body))
        ELSE None

-----------------------------------------------------------------------------
(* The device metadata tree, as one enumeration can read it. *)

N_sdb   == <<"s", "d", "b">>
N_sdc   == <<"s", "d", "c">>
N_loop0 == <<"l", "o", "o", "p", "0">>
N_ram0  == <<"r", "a", "m", "0">>
N_zram0 == <<"z", "r", "a", "m", "0">>
N_dm0   == <<"d", "m", "-", "0">>
N_md0   == <<"m", "d", "0">>
N_sr0   == <<"s", "r", "0">>
N_dmx   == <<"d", "m", "0">>

BlockNames == {N_sdb, N_sdc, N_loop0, N_ram0, N_zram0, N_dm0, N_md0, N_sr0, N_dmx}

\* contents of /sys/block/<name>/removable (None: the file cannot be read)
RemovableFiles == {Some(<<"1", "\n">>), Some(<<"0", "\n">>), None}

\* what /sys/block/<name>/device canonicalizes to (None: it cannot be resolved)
L_usb    == <<"/", "u", "s", "b", "1">>
L_ata    == <<"/", "a", "t", "a", "1">>
L_nvme   == <<"/", "n", "v", "m", "e">>
L_mmc    == <<"/", "m", "m", "c">>
L_musb   == <<"/", "m", "u", "s", "b">>
L_usbata == <<"/", "u", "s", "b", "1", "/", "a", "t", "a">>
L_pci    == <<"/", "p", "c", "i">>

DeviceLinks ==
    {Some(l) : l \in {L_usb, L_ata, L_nvme, L_mmc, L_musb, L_usbata, L_pci}} \cup {None}

\* the links the enumeration is run over
CatalogLinks == {Some(l) : l \in {L_usb, L_ata, L_nvme, L_musb, L_usbata}} \cup {None}

\* contents of /sys/block/<name>/size: 195312 sectors are 99,999,744 bytes,
\* 195313 sectors are 100,000,256 bytes, 390626 sectors are 200,000,512 bytes
S_small == <<"1", "9", "5", "3", "1", "2", "\n">>
S_min   == <<"1", "9", "5", "3", "1", "3", "\n">>
S_big   == <<"3", "9", "0", "6", "2", "6", "\n">>
S_bad   == <<"x", "\n">>

SizeFiles == {Some(f) : f \in {S_small, S_min, S_big, S_bad}} \cup {None}

\* contents of /sys/block/<name>/device/model and device/../product
ModelFiles == {Some("SanDisk"), None}

BlockEntries ==
    [name : BlockNames, removable : RemovableFiles, link : CatalogLinks,
     node : BOOLEAN, size : SizeFiles, model : ModelFiles, product : {None}]

-----------------------------------------------------------------------------
(* Device Catalog: detect_usb_drives and detect_transport. *)

\* fs::read_to_string(path).ok().map(|s| s.trim().to_string())
sysfs_read(file) == IF file = None THEN None ELSE Some(Trim(Get(file)))

SkippedPrefixes ==
    { <<"l", "o", "o", "p">>, <<"r", "a", "m">>, <<"z", "r", "a", "m">>,
      <<"d", "m", "-">>, <<"m", "d">>, <<"s", "r">> }

NoOpticalPrefixes == SkippedPrefixes \ { <<"s", "r">> }

\* a mutation of SkippedByName: the optical-drive prefix is forgotten
SkippedByName_NoOptical(name) == \E p \in NoOpticalPrefixes : StartsWith(name, p)

\* the name filter at the head of the loop
SkippedByName(name) == \E p \in SkippedPrefixes : StartsWith(name, p)

\* SAFETY CHECK 1: sysfs_read(removable).map(|s| s == "1").unwrap_or(false)
Removable(e) ==
    LET r == sysfs_read(e.removable)
    IN  IF r = None THEN FALSE ELSE Get(r) = <<"1">>

\* a mutation of detect_transport: usb is looked for without the slash before it
detect_transport_AnyUsb(link) ==
    IF link = None THEN "unknown"
    ELSE LET real_str == Get(link)
         IN  IF Contains(real_str, <<"u", "s", "b">>) THEN "usb"
             ELSE IF Contains(real_str, <<"n", "v", "m", "e">>) THEN "nvme"
             ELSE IF Contains(real_str, <<"m", "m", "c">>) THEN "mmc"
             ELSE IF Contains(real_str, <<"a", "t", "a">>) THEN "ata"
             ELSE "unknown"

\* walk sysfs to find the transport type
detect_transport(link) ==
    IF link = None THEN "unknown"
    ELSE LET real_str == Get(link)
         IN  IF Contains(real_str, <<"/", "u", "s", "b">>) THEN "usb"
             ELSE IF Contains(real_str, <<"n", "v", "m", "e">>) THEN "nvme"
             ELSE IF Contains(real_str, <<"m", "m", "c">>) THEN "mmc"
             ELSE IF Contains(real_str, <<"a", "t", "a">>) THEN "ata"
             ELSE "unknown"

\* a mutation of TransportOk: internal buses are listed instead of usb required
TransportOk_NotAta(transport) == transport # "ata"

\* SAFETY CHECK 2: transport must be usb
TransportOk(transport) == transport = "usb"

DevPrefix == <<"/", "d", "e", "v", "/">>

\* format!("/dev/{}", name)
DevPath(name) == DevPrefix \o name

\* sysfs_read(size).and_then(|s| s.parse().ok()).unwrap_or(0) * 512
DeviceSize(e) ==
    LET s == sysfs_read(e.size)
        n == IF s = None THEN None ELSE ParseU64(Get(s))
        size_sectors == IF n = None THEN 0 ELSE Get(n)
    IN  size_sectors * SectorBytes

\* skip empty / tiny devices
TooSmall(size) == size < MinDeviceBytes

\* model, or else product, or else "USB Drive"
DeviceModel(e) ==
    IF e.model # None THEN Get(e.model)
    ELSE IF e.product # None THEN Get(e.product)
    ELSE "USB Drive"

\* one iteration of the loop over /sys/block: the Vec after entry e
ScanEntry(devs, e) ==
    LET removable == Removable(e)
        transport == detect_transport(e.link)
        size      == DeviceSize(e)
    IN  IF SkippedByName(e.name) THEN devs
        ELSE IF ~removable THEN devs
        ELSE IF ~TransportOk(transport) THEN devs
        ELSE IF ~e.node THEN devs
        ELSE IF TooSmall(size) THEN devs
        ELSE Append(devs, [name |-> e.name, path |-> DevPath(e.name),
                           size |-> size, model |-> DeviceModel(e),
                           removable |-> removable, transport |-> transport])

\* the whole enumeration over the entries read_dir yields, in its order
RECURSIVE detect_usb_drives(_)
detect_usb_drives(block) ==
    IF block = <<>> THEN <<>>
    ELSE ScanEntry(detect_usb_drives(SubSeq(block, 1, Len(block) - 1)),
                   block[Len(block)])

-----------------------------------------------------------------------------
(* SpecCatalog: one run of detect_usb_drives, one action per directory     *)
(* entry, over every entry of BlockEntries.                                *)

NoResult == [kind |-> "running", why |-> "", code |-> 0]
NoDd == [kind |-> "none", state |-> "none", code |-> None, left |-> 0, sent |-> <<>>]

\* the input and output of one call of detect_transport, and what the two runs
\* of md5sum wrote
toolVars == <<real, transportStr, md5File, md5Pipe>>

\* the byte-level variables, read and written only where the stream of a dd
\* run, the contents of image and device or the text of a tool's output are
\* followed byte by byte
byteVars == <<bytes, lineBuf, consumed, offsets, imgData, media, readBack, loads,
              toolVars>>

NoBytes ==
    /\ bytes = <<>>
    /\ lineBuf = <<>>
    /\ consumed = <<>>
    /\ offsets = <<>>
    /\ imgData = <<>>
    /\ media = <<>>
    /\ readBack = None
    /\ loads = 0
    /\ real = None
    /\ transportStr = ""
    /\ md5File = <<>>
    /\ md5Pipe = <<>>

InitCatalog ==
    /\ pc = "detect"
    /\ cli = None
    /\ op = ""
    /\ verify = FALSE
    /\ image = None
    /\ devices = <<>>
    /\ device = None
    /\ confirm = "none"
    /\ trace = <<>>
    /\ out = <<>>
    /\ result = NoResult
    /\ dd = NoDd
    /\ isoMd5 = ""
    /\ pipe = <<>>
    /\ parser = "none"
    /\ joined = FALSE
    /\ pos = 0
    /\ running = TRUE
    /\ seen = {}
    /\ devNodes = {}
    /\ usable = {}
    /\ NoBytes

flowVars == <<cli, op, verify, image, device, confirm, trace, out, result,
              dd, isoMd5, pipe, parser, joined, pos, running>>

\* what the four attribute checks (removable, transport, node, size) say of e,
\* the name filter aside
PassesAttributeChecks(e) ==
    /\ Removable(e)
    /\ detect_transport(e.link) = "usb"
    /\ e.node
    /\ DeviceSize(e) >= MinDeviceBytes

\* fs::read_dir("/sys/block") fails: the empty Vec is returned
CatReadDirFails ==
    /\ pc = "detect"
    /\ seen = {}
    /\ pc' = "detected"
    /\ UNCHANGED <<devices, seen, devNodes, usable, flowVars, byteVars>>

\* the loop body for the next entry read_dir yields
CatScanEntry ==
    /\ pc = "detect"
    /\ Cardinality(seen) < MaxEntries
    /\ \E e \in BlockEntries :
          /\ e.name \notin seen
          /\ seen' = seen \cup {e.name}
          /\ devNodes' = IF e.node THEN devNodes \cup {e.name} ELSE devNodes
          /\ usable' = IF PassesAttributeChecks(e) THEN usable \cup {e.name} ELSE usable
          /\ devices' = ScanEntry(devices, e)
    /\ UNCHANGED <<pc, flowVars, byteVars>>

\* read_dir is exhausted: the Vec is returned
CatReturn ==
    /\ pc = "detect"
    /\ pc' = "detected"
    /\ UNCHANGED <<devices, seen, devNodes, usable, flowVars, byteVars>>

NextCatalog == CatReadDirFails \/ CatScanEntry \/ CatReturn

SpecCatalog == InitCatalog /\ [][NextCatalog]_vars

-----------------------------------------------------------------------------
(* Spec: one invocation of the program, from main to its return. *)

Ok == [kind |-> "ok", why |-> "", code |-> 0]
Err(why, code) == [kind |-> "err", why |-> why, code |-> code]

Event(o, a) == [op |-> o, arg |-> a]

\* --device as the user may give it: an enumerable stick, a disk that is not
\* enumerated, a bare name
UserDevicePaths == {DevPath(N_sdb), DevPath(N_sdc), N_sdb}

\* The arguments of write are drawn in every combination for an image given
\* with -i.  Leaving -i out only sends main through pick_file (which the
\* wizard goes through with every choice of its options), and --verbose only
\* adds printed lines: each is drawn with one choice of the other arguments.
CliSet ==
    [command : {"write"}, input : {"missing", "exists"},
     device : {Some(d) : d \in UserDevicePaths} \cup {None},
     verify : BOOLEAN, dry_run : BOOLEAN, verbose : {FALSE}]
    \cup
    [command : {"write"}, input : {"none"},
     device : {Some(d) : d \in UserDevicePaths} \cup {None},
     verify : {FALSE}, dry_run : {FALSE}, verbose : {FALSE}]
    \cup
    [command : {"write"}, input : {"exists"}, device : {None},
     verify : {FALSE}, dry_run : BOOLEAN, verbose : {TRUE}]
    \cup
    [command : {"info"}, input : {"none"},
     device : {Some(d) : d \in UserDevicePaths} \cup {None},
     verify : {FALSE}, dry_run : BOOLEAN, verbose : {FALSE}]
    \cup
    [command : {"list", "wizard"}, input : {"none"}, device : {None},
     verify : {FALSE}, dry_run : BOOLEAN, verbose : {FALSE}]
    \cup
    [command : {"list", "wizard", "info"}, input : {"none"}, device : {None},
     verify : {FALSE}, dry_run : {FALSE}, verbose : {TRUE}]

\* the device metadata tree of an invocation: a USB stick of the smallest size
\* kept, a larger one, an internal disk, a loop device dressed as a USB stick
E_stick ==
    [name |-> N_sdb, removable |-> Some(<<"1", "\n">>), link |-> Some(L_usb),
     node |-> TRUE, size |-> Some(S_min), model |-> Some("SanDisk"), product |-> None]
E_stick2 ==
    [name |-> N_dmx, removable |-> Some(<<"1", "\n">>), link |-> Some(L_usb),
     node |-> TRUE, size |-> Some(S_big), model |-> None, product |-> None]
E_internal ==
    [name |-> N_sdc, removable |-> Some(<<"0", "\n">>), link |-> Some(L_ata),
     node |-> TRUE, size |-> Some(S_big), model |-> Some("SanDisk"), product |-> None]
E_loop ==
    [name |-> N_loop0, removable |-> Some(<<"1", "\n">>), link |-> Some(L_usb),
     node |-> TRUE, size |-> Some(S_big), model |-> None, product |-> None]

FlowEntries == {E_stick, E_stick2, E_internal, E_loop}

RECURSIVE SeqsUpTo(_, _)
SeqsUpTo(S, n) ==
    IF n = 0 THEN {<<>>}
    ELSE LET shorter == SeqsUpTo(S, n - 1)
         IN  shorter \cup {Append(q, x) : q \in shorter, x \in S}

DistinctNames(block) ==
    \A i, j \in 1..Len(block) : i # j => block[i].name # block[j].name

FlowTrees == {b \in SeqsUpTo(FlowEntries, MaxEntries) : DistinctNames(b)}

\* image sizes: far below, exactly at and one byte above the smallest device
ImageSizes == {1000, 100000256, 100000257}

Answers == {"yes", "no", "err"}

Init ==
    /\ pc = "main"
    /\ cli \in {Some(c) : c \in CliSet}
    /\ op = ""
    /\ verify = FALSE
    /\ image = None
    /\ devices = <<>>
    /\ device = None
    /\ confirm = "none"
    /\ trace = <<>>
    /\ out = <<>>
    /\ result = NoResult
    /\ dd = NoDd
    /\ isoMd5 = ""
    /\ pipe = <<>>
    /\ parser = "none"
    /\ joined = FALSE
    /\ pos = 0
    /\ running = TRUE
    /\ seen = {}
    /\ devNodes = {}
    /\ usable = {}
    /\ NoBytes

Args == Get(cli)

catVars == <<seen, devNodes, usable>>
procVars == <<dd, isoMd5, pipe, parser, joined, pos, running>>

\* main returns (or exits through the ? operator) with result r
Finish(r) ==
    /\ pc' = "done"
    /\ result' = r

\* fs::metadata(path).len(), None when the file cannot be read
iso_size(img) == img.size

----
(* main: the match on the subcommand *)

MainWrite ==
    /\ pc = "main"
    /\ Args.command = "write"
    /\ op' = "write"
    /\ \/ /\ Args.input = "missing"
          /\ Finish(Err("ISO not found", 1))
          /\ UNCHANGED image
       \/ /\ Args.input = "exists"
          /\ \E n \in ImageSizes : image' = Some([path |-> "arg.iso", size |-> Some(n)])
          /\ pc' = "device"
          /\ UNCHANGED result
       \/ /\ Args.input = "none"
          /\ pc' = "pick_file"
          /\ UNCHANGED <<image, result>>
    /\ UNCHANGED <<cli, verify, devices, device, confirm, trace, out, procVars, catVars, byteVars>>

MainList ==
    /\ pc = "main"
    /\ Args.command = "list"
    /\ op' = "list"
    /\ pc' = "do_list"
    /\ UNCHANGED <<cli, verify, image, devices, device, confirm, trace, out,
                   result, procVars, catVars, byteVars>>

MainInfo ==
    /\ pc = "main"
    /\ Args.command = "info"
    /\ op' = "info"
    /\ pc' = "device"
    /\ UNCHANGED <<cli, verify, image, devices, device, confirm, trace, out,
                   result, procVars, catVars, byteVars>>

MainWizard ==
    /\ pc = "main"
    /\ Args.command = "wizard"
    /\ pc' = "wizard"
    /\ UNCHANGED <<cli, op, verify, image, devices, device, confirm, trace, out,
                   result, procVars, catVars, byteVars>>

\* do_wizard: the menu
WizardOps == <<"write", "verify", "list", "info">>

WizardNext(o) ==
    CASE o = "write"  -> "pick_file"
      [] o = "verify" -> "pick_file"
      [] o = "list"   -> "do_list"
      [] o = "info"   -> "device"

WizardMenu ==
    /\ pc = "wizard"
    /\ \/ /\ trace' = Append(trace, Event("menu", 0))
          /\ Finish(Err("prompt failed", 1))
          /\ UNCHANGED op
       \/ \E i \in 1..Len(WizardOps) :
             /\ trace' = Append(trace, Event("menu", i))
             /\ op' = WizardOps[i]
             /\ pc' = WizardNext(WizardOps[i])
             /\ UNCHANGED result
    /\ UNCHANGED <<cli, verify, image, devices, device, confirm, out, procVars, catVars, byteVars>>

\* pick_file: Ok(path), or an error (prompt failed, file not found)
PickFile ==
    /\ pc = "pick_file"
    /\ \/ /\ trace' = Append(trace, Event("pick_file", "err"))
          /\ Finish(Err("File not found", 1))
          /\ UNCHANGED image
       \/ /\ trace' = Append(trace, Event("pick_file", "ok"))
          /\ \E sz \in {Some(n) : n \in ImageSizes} \cup {None} :
                image' = Some([path |-> "picked.iso", size |-> sz])
          /\ pc' = "device"
          /\ UNCHANGED result
    /\ UNCHANGED <<cli, op, verify, devices, device, confirm, out, procVars, catVars, byteVars>>

----
(* the target device: --device validated against the enumeration, or chosen
   from it *)

\* a mutation of FindByPath: the user's path is taken as it is
FindByPath_Unchecked(devs, d) ==
    Some([name |-> d, path |-> d, size |-> MinDeviceBytes, model |-> "USB Drive",
          removable |-> TRUE, transport |-> "usb"])

\* devices.into_iter().find(|dev| dev.path == d)
FindByPath(devs, d) ==
    LET hits == {i \in 1..Len(devs) : devs[i].path = d}
    IN  IF hits = {} THEN None
        ELSE Some(devs[CHOOSE i \in hits : \A j \in hits : i <= j])

\* detect_usb_drives() has returned devs to its caller
Enumerated(devs) == Event("detect", Len(devs))

AfterDevice ==
    CASE op = "write"  -> "confirm"
      [] op = "verify" -> "do_verify"
      [] op = "info"   -> "do_info"

DeviceByPath ==
    /\ pc = "device"
    /\ Args.device # None
    /\ \E block \in FlowTrees :
          LET found == FindByPath(detect_usb_drives(block), Get(Args.device))
          IN  /\ devices' = detect_usb_drives(block)
              /\ trace' = Append(trace, Enumerated(detect_usb_drives(block)))
              /\ IF found = None
                 THEN /\ Finish(Err("not a detected USB drive", 1))
                      /\ UNCHANGED device
                 ELSE /\ device' = found
                      /\ pc' = AfterDevice
                      /\ UNCHANGED result
    /\ UNCHANGED <<cli, op, verify, image, confirm, out, procVars, catVars, byteVars>>

\* select_usb_device
DeviceSelect ==
    /\ pc = "device"
    /\ Args.device = None
    /\ \E block \in FlowTrees :
          /\ devices' = detect_usb_drives(block)
          /\ IF detect_usb_drives(block) = <<>>
             THEN /\ trace' = Append(trace, Enumerated(<<>>))
                  /\ Finish(Err("No USB drives detected", 1))
                  /\ UNCHANGED device
             ELSE \/ /\ trace' = trace \o <<Enumerated(detect_usb_drives(block)),
                                            Event("select", 0)>>
                     /\ Finish(Err("prompt failed", 1))
                     /\ UNCHANGED device
                  \/ \E idx \in 1..Len(detect_usb_drives(block)) :
                        /\ trace' = trace \o <<Enumerated(detect_usb_drives(block)),
                                               Event("select", idx)>>
                        /\ device' = Some(detect_usb_drives(block)[idx])
                        /\ pc' = AfterDevice
                        /\ UNCHANGED result
    /\ UNCHANGED <<cli, op, verify, image, confirm, out, procVars, catVars, byteVars>>

----
(* safety_confirm, and the caller's test of what it returned *)

\* a mutation of TooLarge: an image of exactly the device's size is refused
TooLarge_OrEqual(iso_bytes, size) == iso_bytes >= size

\* check ISO fits on device
TooLarge(iso_bytes, size) == iso_bytes > size

\* a mutation of FirstDeclined: a "no" to the first prompt is not acted on
FirstDeclined_Ignored(first) == FALSE

\* if !first { return Ok(false) }
FirstDeclined(first) == first = "no"

\* a mutation of SecondReturn: the answer to the final warning is dropped
SecondReturn_AlwaysTrue(second) == "true"

\* Ok(second)
SecondReturn(second) == IF second = "yes" THEN "true" ELSE "false"

Prompt(which, answer) ==
    Event(which, [device |-> Get(device).path, answer |-> answer])

ConfirmSize ==
    /\ pc = "confirm"
    /\ LET iso_bytes == iso_size(Get(image))
       IN  IF iso_bytes = None
           THEN confirm' = "err" /\ pc' = "confirm_ret"
           ELSE IF TooLarge(Get(iso_bytes), Get(device).size)
           THEN confirm' = "false" /\ pc' = "confirm_ret"
           ELSE confirm' = confirm /\ pc' = "confirm_first"
    /\ UNCHANGED <<cli, op, verify, image, devices, device, trace, out, result,
                   procVars, catVars, byteVars>>

ConfirmFirst ==
    /\ pc = "confirm_first"
    /\ \E first \in Answers :
          /\ trace' = Append(trace, Prompt("prompt1", first))
          /\ IF first = "err"
             THEN confirm' = "err" /\ pc' = "confirm_ret"
             ELSE IF FirstDeclined(first)
             THEN confirm' = "false" /\ pc' = "confirm_ret"
             ELSE confirm' = confirm /\ pc' = "confirm_second"
    /\ UNCHANGED <<cli, op, verify, image, devices, device, out, result,
                   procVars, catVars, byteVars>>

ConfirmSecond ==
    /\ pc = "confirm_second"
    /\ \E second \in Answers :
          /\ trace' = Append(trace, Prompt("prompt2", second))
          /\ confirm' = IF second = "err" THEN "err" ELSE SecondReturn(second)
    /\ pc' = "confirm_ret"
    /\ UNCHANGED <<cli, op, verify, image, devices, device, out, result,
                   procVars, catVars, byteVars>>

\* a mutation of MayProceed: only a failure of safety_confirm stops the caller
MayProceed_UnlessFailed(ret) == ret # "err"

\* if !safety_confirm(&input, &device)? { return Ok(()); }
MayProceed(ret) == ret = "true"

ConfirmReturn ==
    /\ pc = "confirm_ret"
    /\ IF confirm = "err"
       THEN /\ Finish(Err("safety_confirm failed", 1))
            /\ UNCHANGED verify
       ELSE IF ~MayProceed(confirm)
       THEN /\ Finish(Ok)
            /\ UNCHANGED verify
       ELSE IF Args.command = "wizard"
       THEN /\ pc' = "options"
            /\ UNCHANGED <<verify, result>>
       ELSE /\ pc' = "do_write"
            /\ verify' = Args.verify
            /\ UNCHANGED result
    /\ UNCHANGED <<cli, op, image, devices, device, confirm, trace, out,
                   procVars, catVars, byteVars>>

\* do_wizard: the MultiSelect of options, then do_write
WizardOptions ==
    /\ pc = "options"
    /\ \/ /\ trace' = Append(trace, Event("options", "err"))
          /\ Finish(Err("prompt failed", 1))
          /\ UNCHANGED verify
       \/ \E v \in BOOLEAN :
             /\ trace' = Append(trace, Event("options", "ok"))
             /\ verify' = v
             /\ pc' = "do_write"
             /\ UNCHANGED result
    /\ UNCHANGED <<cli, op, image, devices, device, confirm, out, procVars, catVars, byteVars>>

----
(* unmount_device *)

M_sdb1  == DevPath(N_sdb) \o <<"1">>
M_sdba1 == DevPath(N_sdb) \o <<"a", "1">>
M_sdc1  == DevPath(N_sdc) \o <<"1">>

\* lines of /proc/mounts, split at whitespace: <<device, mount point, ...>>
MountLines ==
    { <<M_sdb1, "/mnt/usb">>, <<M_sdba1, "/mnt/other">>, <<M_sdc1, "/home">>,
      <<M_sdb1>> }

MountTables == SeqsUpTo(MountLines, MaxMounts)

\* whether the line's mount point is handed to umount
UnmountsLine(parts, dev) ==
    /\ Len(parts) >= 2
    /\ StartsWith(parts[1], dev.path)

\* the umount invocations of unmount_device, in the order of the table
RECURSIVE unmount_device(_, _)
unmount_device(mounts, dev) ==
    IF mounts = <<>> THEN <<>>
    ELSE LET parts == Head(mounts)
             rest  == unmount_device(Tail(mounts), dev)
         IN  IF UnmountsLine(parts, dev)
             THEN <<Event("umount", [source |-> parts[1], target |-> parts[2]])>> \o rest
             ELSE rest

----
(* do_write *)

\* the arguments do_write gives to Command::new("dd")
CopyArgs(img, dev) ==
    << <<"if", img.path>>, <<"of", dev.path>>, <<"bs", "4M">>,
       <<"status", "progress">> >>

\* the command line the dry-run and verbose messages format
PrintedArgs(img, dev) ==
    << <<"if", img.path>>, <<"of", dev.path>>, <<"bs", "4M">>,
       <<"status", "progress">>, <<"oflag", "sync">> >>

Line(kind, img, dev) == [kind |-> kind, tool |-> "dd", args |-> PrintedArgs(img, dev)]

ExitCodes == {Some(0), Some(1), None}

\* a mutation of status_success: the exit status is not looked at
status_success_Unchecked(code) == TRUE

\* ExitStatus::success
status_success(code) == code = Some(0)

\* status.code().unwrap_or(-1)
code_or_minus_one(code) == IF code = None THEN -1 ELSE Get(code)

DoWriteUnmount ==
    /\ pc = "do_write"
    /\ IF iso_size(Get(image)) = None
       THEN /\ Finish(Err("Cannot read ISO", 1))
            /\ UNCHANGED trace
       ELSE /\ \E mounts \in MountTables :
                  trace' = trace \o unmount_device(mounts, Get(device))
            /\ pc' = "dry_run"
            /\ UNCHANGED result
    /\ UNCHANGED <<cli, op, verify, image, devices, device, confirm, out,
                   procVars, catVars, byteVars>>

DoWriteDryRun ==
    /\ pc = "dry_run"
    /\ Args.dry_run
    /\ out' = Append(out, Line("dry_run", Get(image), Get(device)))
    /\ Finish(Ok)
    /\ UNCHANGED <<cli, op, verify, image, devices, device, confirm, trace,
                   procVars, catVars, byteVars>>

\* a process that has been waited for or can be waited for without blocking
Exited(child) == child.state = "exited"

\* a mutation of AfterCopySpawn: the read-back is started without waiting for
\* the copy
AfterCopySpawn_Eager(v) == IF v THEN "do_verify" ELSE "wait_dd"

\* after the spawn do_write waits for the copy whatever verify is
AfterCopySpawn(v) == "wait_dd"

DoWriteSpawn ==
    /\ pc = "dry_run"
    /\ ~Args.dry_run
    /\ out' = IF Args.verbose
              THEN Append(out, Line("verbose", Get(image), Get(device)))
              ELSE out
    /\ \/ /\ Finish(Err("Failed to launch dd", 1))
          /\ UNCHANGED <<trace, dd, pipe, parser, joined, pos>>
       \/ /\ trace' = Append(trace, Event("dd_copy", CopyArgs(Get(image), Get(device))))
          /\ dd' = [kind |-> "copy", state |-> "running", code |-> None,
                    left |-> MaxLines, sent |-> <<>>]
          /\ pipe' = <<>>
          /\ parser' = "run"
          /\ joined' = FALSE
          /\ pos' = 0
          /\ pc' = AfterCopySpawn(verify)
          /\ UNCHANGED result
    /\ UNCHANGED <<cli, op, verify, image, devices, device, confirm, isoMd5,
                   running, catVars, byteVars>>

\* child.wait()
DoWriteWait ==
    /\ pc = "wait_dd"
    /\ Exited(dd)
    /\ trace' = Append(trace, Event("wait", "dd_copy"))
    /\ pc' = "join"
    /\ UNCHANGED <<cli, op, verify, image, devices, device, confirm, out,
                   result, procVars, catVars, byteVars>>

\* parse_thread.join(), then the test of the exit status
DoWriteJoin ==
    /\ pc = "join"
    /\ parser = "done"
    /\ joined' = TRUE
    /\ IF ~status_success(dd.code)
       THEN /\ Finish(Err("dd failed", code_or_minus_one(dd.code)))
            /\ UNCHANGED <<pos, trace>>
       ELSE /\ pos' = Get(iso_size(Get(image)))
            /\ trace' = Append(trace, Event("message", "Write complete!"))
            /\ pc' = "sync"
            /\ UNCHANGED result
    /\ UNCHANGED <<cli, op, verify, image, devices, device, confirm, out,
                   dd, isoMd5, pipe, parser, running, catVars, byteVars>>

\* let _ = Command::new("sync").status() (what it returns is dropped), the
\* message, the test of verify
DoWriteSync ==
    /\ pc = "sync"
    /\ trace' = trace \o <<Event("sync", 0), Event("message", "Sync complete")>>
    /\ pc' = IF verify THEN "do_verify" ELSE "all_done"
    /\ UNCHANGED <<cli, op, verify, image, devices, device, confirm, out,
                   result, procVars, catVars, byteVars>>

\* the closing banner of do_write, and its Ok(())
DoWriteDone ==
    /\ pc = "all_done"
    /\ trace' = Append(trace, Event("message", "ALL DONE"))
    /\ Finish(Ok)
    /\ UNCHANGED <<cli, op, verify, image, devices, device, confirm, out,
                   procVars, catVars, byteVars>>

----
(* the dd subprocess and the thread that parses its stderr *)

W_bytes  == <<"b", "y", "t", "e", "s">>
W_copied == <<"c", "o", "p", "i", "e", "d">>

\* "512 bytes copied", "100,000,257 bytes copied", "dd: error"
PL_512  == <<"5", "1", "2", " ">> \o W_bytes \o <<" ">> \o W_copied
PL_over == <<"1", "0", "0", ",", "0", "0", "0", ",", "2", "5", "7", " ">>
               \o W_bytes \o <<" ">> \o W_copied
PL_diag == <<"d", "d", ":", " ", "e", "r", "r", "o", "r">>

ProgressLines == {PL_512, PL_over, PL_diag}

\* line.split_whitespace().next()
RECURSIVE TakeToken(_)
TakeToken(s) ==
    IF s = <<>> \/ IsSpace(Head(s)) THEN <<>> ELSE <<Head(s)>> \o TakeToken(Tail(s))

FirstToken(s) ==
    LET t == TrimStart(s) IN IF t = <<>> THEN None ELSE Some(TakeToken(t))

\* s.replace(',', "")
RemoveCommas(s) == SelectSeq(s, LAMBDA c : c # ",")

parse_dd_bytes(line) ==
    LET tok == FirstToken(line)
    IN  IF tok = None THEN None ELSE ParseU64(RemoveCommas(Get(tok)))

\* what the parser does with one line: the offset it sets, or None
LineOffset(line) ==
    LET trimmed == Trim(line)
    IN  IF Contains(trimmed, W_bytes) /\ Contains(trimmed, W_copied)
        THEN parse_dd_bytes(trimmed)
        ELSE None

\* the position after an accepted offset b: set_position(b) in do_write,
\* set_position(b.min(iso_bytes)) in do_verify
Min(a, b) == IF a <= b THEN a ELSE b

NewPosition(kind, b, iso_bytes) ==
    IF kind = "read" THEN Min(b, iso_bytes) ELSE b

Alive == result.kind = "running"

\* dd writes a line of progress; once the program has ended nothing holds the
\* read end of the pipe
DdWriteLine ==
    /\ Alive
    /\ dd.state = "running"
    /\ dd.left > 0
    /\ \E l \in ProgressLines :
          /\ pipe' = Append(pipe, l)
          /\ dd' = [dd EXCEPT !.left = @ - 1, !.sent = Append(@, l)]
    /\ UNCHANGED <<pc, cli, op, verify, image, devices, device, confirm, trace,
                   out, result, isoMd5, parser, joined, pos, running, catVars, byteVars>>

DdExit ==
    /\ dd.state = "running"
    /\ \E c \in ExitCodes :
          /\ dd' = [dd EXCEPT !.state = "exited", !.code = c]
          /\ trace' = Append(trace, Event("dd_exit", [kind |-> dd.kind, code |-> c]))
    /\ UNCHANGED <<pc, cli, op, verify, image, devices, device, confirm, out,
                   result, isoMd5, pipe, parser, joined, pos, running, catVars,
                   byteVars>>

\* the parser reads up to the next line end and handles the line
ParserLine ==
    /\ Alive
    /\ parser = "run"
    /\ running
    /\ pipe # <<>>
    /\ LET b == LineOffset(Head(pipe))
       IN  pos' = IF b = None THEN pos
                  ELSE NewPosition(dd.kind, Get(b), Get(iso_size(Get(image))))
    /\ pipe' = Tail(pipe)
    /\ UNCHANGED <<pc, cli, op, verify, image, devices, device, confirm, trace,
                   out, result, dd, isoMd5, parser, joined, running, catVars, byteVars>>

\* Ok(0): the stream is closed and drained
ParserEof ==
    /\ Alive
    /\ parser = "run"
    /\ running
    /\ pipe = <<>>
    /\ Exited(dd)
    /\ parser' = "done"
    /\ UNCHANGED <<pc, cli, op, verify, image, devices, device, confirm, trace,
                   out, result, dd, isoMd5, pipe, joined, pos, running, catVars, byteVars>>

----
(* do_verify *)

Sectors(iso_bytes) == (iso_bytes + 511) \div 512

\* the arguments do_verify gives to Command::new("dd")
ReadArgs(dev, sectors) ==
    << <<"if", dev.path>>, <<"bs", "512">>, <<"count", sectors>>,
       <<"status", "progress">> >>

\* first token of md5sum's output for the file ("" when there is none)
ImageDigests == {"d_image", ""}
\* first token of the piped md5sum's output ("error" when there is none)
DeviceDigests == {"d_image", "d_other", "error"}

VerifyDigest ==
    /\ pc = "do_verify"
    /\ IF iso_size(Get(image)) = None
       THEN /\ Finish(Err("Cannot read ISO", 1))
            /\ UNCHANGED <<trace, isoMd5>>
       ELSE \/ /\ Finish(Err("md5sum not found", 1))
               /\ UNCHANGED <<trace, isoMd5>>
            \/ /\ trace' = Append(trace, Event("md5sum_file", Get(image).path))
               /\ isoMd5' \in ImageDigests
               /\ pc' = "verify_spawn"
               /\ UNCHANGED result
    /\ UNCHANGED <<cli, op, verify, image, devices, device, confirm, out, dd,
                   pipe, parser, joined, pos, running, catVars, byteVars>>

VerifySpawn ==
    /\ pc = "verify_spawn"
    /\ LET read == Event("dd_read",
                         ReadArgs(Get(device), Sectors(Get(iso_size(Get(image))))))
           child == [kind |-> "read", state |-> "running", code |-> None,
                     left |-> MaxLines, sent |-> <<>>]
       IN  \/ /\ Finish(Err("Failed to run dd for verify", 1))
              /\ UNCHANGED <<trace, dd, pipe, parser, joined, pos>>
           \/ /\ Finish(Err("Failed to run md5sum", 1))
              /\ trace' = Append(trace, read)
              /\ dd' = child
              /\ pipe' = <<>>
              /\ UNCHANGED <<parser, joined, pos>>
           \/ /\ trace' = trace \o <<read, Event("md5sum_pipe", 0)>>
              /\ dd' = child
              /\ pipe' = <<>>
              /\ parser' = "run"
              /\ joined' = FALSE
              /\ pos' = 0
              /\ pc' = "verify_wait"
              /\ UNCHANGED result
    /\ UNCHANGED <<cli, op, verify, image, devices, device, confirm, out, isoMd5,
                   running, catVars, byteVars>>

\* dd.wait() (the exit status is dropped), md5proc.wait_with_output(),
\* pb.set_position(iso_bytes)
VerifyWait ==
    /\ pc = "verify_wait"
    /\ Exited(dd)
    /\ trace' = trace \o <<Event("wait", "dd_read"), Event("wait", "md5sum_pipe")>>
    /\ pos' = Get(iso_size(Get(image)))
    /\ pc' = "verify_cmp"
    /\ UNCHANGED <<cli, op, verify, image, devices, device, confirm, out,
                   result, dd, isoMd5, pipe, parser, joined, running, catVars,
                   byteVars>>

\* a mutation of DigestsEqual: the two digests are not compared
DigestsEqual_Unchecked(iso_md5, usb_md5) == TRUE

\* iso_md5 == usb_md5
DigestsEqual(iso_md5, usb_md5) == iso_md5 = usb_md5

\* the first token of what md5sum wrote, and the comparison; do_verify(...)?
\* in do_write hands an Err on to main
VerifyCompare ==
    /\ pc = "verify_cmp"
    /\ \E usb_md5 \in DeviceDigests :
          /\ trace' = Append(trace, Event("md5sum_out", usb_md5))
          /\ IF DigestsEqual(isoMd5, usb_md5)
             THEN IF op = "write"
                  THEN pc' = "all_done" /\ UNCHANGED result
                  ELSE Finish(Ok)
             ELSE Finish(Err("MD5 mismatch", 1))
    /\ UNCHANGED <<cli, op, verify, image, devices, device, confirm, out,
                   procVars, catVars, byteVars>>

----
(* do_list, do_info, the Ctrl-C handler *)

DoList ==
    /\ pc = "do_list"
    /\ \E block \in FlowTrees :
          /\ devices' = detect_usb_drives(block)
          /\ trace' = Append(trace, Enumerated(detect_usb_drives(block)))
    /\ Finish(Ok)
    /\ UNCHANGED <<cli, op, verify, image, device, confirm, out,
                   procVars, catVars, byteVars>>

DoInfo ==
    /\ pc = "do_info"
    /\ trace' = Append(trace, Event("lsblk", Get(device).path))
    /\ Finish(Ok)
    /\ UNCHANGED <<cli, op, verify, image, devices, device, confirm, out,
                   procVars, catVars, byteVars>>

\* running.store(false); std::process::exit(1)
Interrupt ==
    /\ Alive
    /\ running' = FALSE
    /\ result' = [kind |-> "exit", why |-> "interrupt", code |-> 1]
    /\ pc' = "exited"
    /\ UNCHANGED <<cli, op, verify, image, devices, device, confirm, trace, out,
                   dd, isoMd5, pipe, parser, joined, pos, catVars, byteVars>>

Next ==
    \/ MainWrite \/ MainList \/ MainInfo \/ MainWizard
    \/ WizardMenu \/ PickFile \/ DeviceByPath \/ DeviceSelect
    \/ ConfirmSize \/ ConfirmFirst \/ ConfirmSecond \/ ConfirmReturn
    \/ WizardOptions
    \/ DoWriteUnmount \/ DoWriteDryRun \/ DoWriteSpawn
    \/ DoWriteWait \/ DoWriteJoin \/ DoWriteSync \/ DoWriteDone
    \/ DdWriteLine \/ DdExit \/ ParserLine \/ ParserEof
    \/ VerifyDigest \/ VerifySpawn \/ VerifyWait \/ VerifyCompare
    \/ DoList \/ DoInfo \/ Interrupt

Spec == Init /\ [][Next]_vars

-----------------------------------------------------------------------------
(* SpecParser: the parser thread of do_write, byte by byte, on a stream that *)
(* dd has written in full before it exited.                                  *)

\* pieces dd's stderr is put together from
K_one    == <<"1">>
K_two    == <<"2", ",">>
K_plus   == <<"+">>
K_bytes  == <<" ">> \o W_bytes
K_copied == <<" ">> \o W_copied
K_line   == <<"3", " ">> \o W_bytes \o <<" ">> \o W_copied
K_cr     == <<"\r">>
K_lf     == <<"\n">>

Pieces == {K_one, K_two, K_plus, K_bytes, K_copied, K_line, K_cr, K_lf}

\* pieces in one stream
MaxPieces == 3

RECURSIVE Flatten(_)
Flatten(ss) == IF ss = <<>> THEN <<>> ELSE Head(ss) \o Flatten(Tail(ss))

Streams == {Flatten(ss) : ss \in SeqsUpTo(Pieces, MaxPieces)}

\* the variables of the controlling flow, which the byte-level specifications
\* leave alone
idleVars == <<cli, op, verify, devices, device, confirm, trace, out, result,
              isoMd5, pipe, joined, running, seen, devNodes, usable>>

Idle ==
    /\ cli = None
    /\ op = ""
    /\ verify = FALSE
    /\ devices = <<>>
    /\ device = None
    /\ confirm = "none"
    /\ trace = <<>>
    /\ out = <<>>
    /\ result = NoResult
    /\ isoMd5 = ""
    /\ pipe = <<>>
    /\ joined = FALSE
    /\ running = TRUE
    /\ seen = {}
    /\ devNodes = {}
    /\ usable = {}

\* the parser thread has been spawned, dd has written its stream and exited,
\* the controlling flow is in child.wait()
InitParser ==
    /\ Idle
    /\ pc = "wait_dd"
    /\ image = Some([path |-> "arg.iso", size |-> Some(1000)])
    /\ dd = [kind |-> "copy", state |-> "exited", code |-> Some(0), left |-> 0,
             sent |-> <<>>]
    /\ parser = "run"
    /\ pos = 0
    /\ bytes \in Streams
    /\ lineBuf = <<>>
    /\ consumed = <<>>
    /\ offsets = <<>>
    /\ imgData = <<>>
    /\ media = <<>>
    /\ readBack = None
    /\ loads = 0
    /\ real = None
    /\ transportStr = ""
    /\ md5File = <<>>
    /\ md5Pipe = <<>>

\* a mutation of IsLineEnd: only the newline ends a line
IsLineEnd_NewlineOnly(ch) == ch = "\n"

\* ch == '\r' || ch == '\n'
IsLineEnd(ch) == ch \in {"\r", "\n"}

\* Ok(_): one byte was read
ParserByte ==
    /\ parser = "run"
    /\ running
    /\ bytes # <<>>
    /\ LET ch == Head(bytes)
           b  == LineOffset(lineBuf)
       IN  /\ bytes' = Tail(bytes)
           /\ consumed' = Append(consumed, ch)
           /\ IF IsLineEnd(ch)
              THEN /\ lineBuf' = <<>>
                   /\ IF b = None
                      THEN UNCHANGED <<pos, offsets>>
                      ELSE /\ pos' = NewPosition(dd.kind, Get(b),
                                                Get(iso_size(Get(image))))
                           /\ offsets' = Append(offsets, Get(b))
              ELSE /\ lineBuf' = Append(lineBuf, ch)
                   /\ UNCHANGED <<pos, offsets>>
    /\ UNCHANGED <<pc, image, dd, parser, imgData, media, readBack, loads,
                   toolVars, idleVars>>

\* Ok(0): the stream is closed and drained, the loop is left
ParserBreak ==
    /\ parser = "run"
    /\ running
    /\ bytes = <<>>
    /\ Exited(dd)
    /\ parser' = "done"
    /\ UNCHANGED <<pc, image, dd, pos, byteVars, idleVars>>

NextParser == ParserByte \/ ParserBreak

SpecParser == InitParser /\ [][NextParser]_vars

-----------------------------------------------------------------------------
(* SpecVerify: the data path of do_verify, on the bytes of the image and of *)
(* the device.                                                              *)

\* sectors of the device
MaxSectors == 2

\* image lengths: one byte, around one sector, two sectors
ImageLengths ==
    {1, SectorBytes - 1, SectorBytes, SectorBytes + 1, 2 * SectorBytes}

Image(n) == [i \in 1..n |-> 0]

\* a device of len bytes that holds the image of n bytes, then fill, with the
\* byte at offset at - 1 changed to 7, a value that occurs neither in the image
\* nor in the filling (at = 0: no byte changed)
Media(n, len, fill, at) ==
    [i \in 1..len |-> IF i = at THEN 7 ELSE IF i <= n THEN 0 ELSE fill]

\* the image and the device after the controlling flow has entered do_verify
InitVerify ==
    /\ Idle
    /\ pc = "vfy_read"
    /\ image = None
    /\ dd = NoDd
    /\ parser = "none"
    /\ pos = 0
    /\ bytes = <<>>
    /\ lineBuf = <<>>
    /\ consumed = <<>>
    /\ offsets = <<>>
    /\ readBack = None
    /\ loads = 0
    /\ real = None
    /\ transportStr = ""
    /\ md5File = <<>>
    /\ md5Pipe = <<>>
    /\ \E n \in ImageLengths, s \in 1..MaxSectors, fill \in {0, 1} :
          /\ n <= s * SectorBytes
          /\ imgData = Image(n)
          /\ \E at \in {0, 1, n, n + 1} :
                /\ at <= s * SectorBytes
                /\ media = Media(n, s * SectorBytes, fill, at)

\* what dd if=<device> bs=512 count=<count> writes to its stdout
DdRead(dev, count) ==
    SubSeq(dev, 1, Min(count * SectorBytes, Len(dev)))

\* md5sum: taken as injective
Md5(data) == <<"md5", data>>

\* the read-back: iso_size, the sector count, dd piped into md5sum
VfyReadBack ==
    /\ pc = "vfy_read"
    /\ readBack' = Some(DdRead(media, Sectors(Len(imgData))))
    /\ pc' = "vfy_compare"
    /\ UNCHANGED <<image, dd, parser, pos, bytes, lineBuf, consumed, offsets,
                   imgData, media, loads, toolVars, idleVars>>

\* the comparison of the two digests
VfyCompare ==
    /\ pc = "vfy_compare"
    /\ pc' = "vfy_done"
    /\ result' = IF DigestsEqual(Md5(imgData), Md5(Get(readBack)))
                 THEN Ok
                 ELSE Err("MD5 mismatch", 1)
    /\ UNCHANGED <<cli, op, verify, devices, device, confirm, trace, out,
                   isoMd5, pipe, joined, running, seen, devNodes, usable,
                   image, dd, parser, pos, byteVars>>

NextVerify == VfyReadBack \/ VfyCompare

SpecVerify == InitVerify /\ [][NextVerify]_vars

-----------------------------------------------------------------------------
(* SpecStop: the parser thread of do_write from its spawn to the return of  *)
(* do_write, with the flag test and the read of one byte as separate steps, *)
(* the Ctrl-C handler as its two statements, and read errors.               *)

\* writes of dd to its stderr in one run
MaxEmit == 2

\* what one write of dd puts into the pipe
StopPieces == {K_line, K_cr, K_one}

InitStop ==
    /\ Idle
    /\ NoBytes
    /\ pc = "wait_dd"
    /\ image = Some([path |-> "arg.iso", size |-> Some(1000)])
    /\ dd = [kind |-> "copy", state |-> "running", code |-> None,
             left |-> MaxEmit, sent |-> <<>>]
    /\ parser = "run"
    /\ pos = 0

\* dd writes to its stderr; once the program has ended nothing holds the read
\* end of the pipe
DdWriteBytes ==
    /\ Alive
    /\ dd.state = "running"
    /\ dd.left > 0
    /\ \E piece \in StopPieces :
          /\ bytes' = bytes \o piece
          /\ dd' = [dd EXCEPT !.left = @ - 1, !.sent = Append(@, piece)]
    /\ UNCHANGED <<pc, image, parser, pos, lineBuf, consumed, offsets, imgData,
                   media, readBack, loads, toolVars, idleVars>>

\* a mutation of StreamClosed: the write end of the pipe stays open after dd
\* has exited
StreamClosed_HeldOpen(child, buf) == FALSE

\* reader.read returns Ok(0): dd has exited and what it wrote has been read
StreamClosed(child, buf) == Exited(child) /\ buf = <<>>

\* if !run2.load(Ordering::SeqCst) { break; }
ParserLoadFlag ==
    /\ Alive
    /\ parser = "run"
    /\ IF running
       THEN /\ parser' = "read"
            /\ loads' = loads + 1
            /\ UNCHANGED trace
       ELSE /\ parser' = "done"
            /\ trace' = Append(trace, Event("parser_stop", "flag"))
            /\ UNCHANGED loads
    /\ UNCHANGED <<pc, cli, op, verify, image, devices, device, confirm, out,
                   result, dd, isoMd5, pipe, joined, pos, running, catVars,
                   bytes, lineBuf, consumed, offsets, imgData, media, readBack,
                   toolVars>>

\* reader.read returns Ok(_): one byte, handled as in ParserByte
ParserReadByte ==
    /\ Alive
    /\ parser = "read"
    /\ bytes # <<>>
    /\ parser' = "run"
    /\ LET ch == Head(bytes)
           b  == LineOffset(lineBuf)
       IN  /\ bytes' = Tail(bytes)
           /\ consumed' = Append(consumed, ch)
           /\ IF IsLineEnd(ch)
              THEN /\ lineBuf' = <<>>
                   /\ IF b = None
                      THEN UNCHANGED <<pos, offsets>>
                      ELSE /\ pos' = NewPosition(dd.kind, Get(b),
                                                Get(iso_size(Get(image))))
                           /\ offsets' = Append(offsets, Get(b))
              ELSE /\ lineBuf' = Append(lineBuf, ch)
                   /\ UNCHANGED <<pos, offsets>>
    /\ UNCHANGED <<pc, image, dd, imgData, media, readBack, loads, toolVars,
                   cli, op, verify, devices, device, confirm, trace, out, result,
                   isoMd5, pipe, joined, running, catVars>>

\* reader.read returns Ok(0): break
ParserReadEnd ==
    /\ Alive
    /\ parser = "read"
    /\ StreamClosed(dd, bytes)
    /\ parser' = "done"
    /\ trace' = Append(trace, Event("parser_stop", "closed"))
    /\ UNCHANGED <<pc, cli, op, verify, image, devices, device, confirm, out,
                   result, dd, isoMd5, pipe, joined, pos, running, catVars,
                   byteVars>>

\* reader.read returns Err(_): break
ParserReadErr ==
    /\ Alive
    /\ parser = "read"
    /\ parser' = "done"
    /\ trace' = Append(trace, Event("parser_stop", "error"))
    /\ UNCHANGED <<pc, cli, op, verify, image, devices, device, confirm, out,
                   result, dd, isoMd5, pipe, joined, pos, running, catVars,
                   byteVars>>

\* the Ctrl-C handler: running.store(false, Ordering::SeqCst)
HandlerStore ==
    /\ Alive
    /\ running
    /\ running' = FALSE
    /\ UNCHANGED <<pc, cli, op, verify, image, devices, device, confirm, trace,
                   out, result, dd, isoMd5, pipe, parser, joined, pos, catVars,
                   byteVars>>

\* the Ctrl-C handler: std::process::exit(1)
HandlerExit ==
    /\ Alive
    /\ ~running
    /\ result' = [kind |-> "exit", why |-> "interrupt", code |-> 1]
    /\ pc' = "exited"
    /\ UNCHANGED <<cli, op, verify, image, devices, device, confirm, trace, out,
                   dd, isoMd5, pipe, parser, joined, pos, running, catVars,
                   byteVars>>

\* the steps of the controlling flow, of the parser thread when its read does
\* not fail, and of the handler once entered: each is taken when it can be
FlowStep == DoWriteWait \/ DoWriteJoin \/ DoWriteSync \/ DoWriteDone
ParserStep == ParserLoadFlag \/ ParserReadByte \/ ParserReadEnd

NextStop ==
    \/ DdWriteBytes \/ DdExit
    \/ ParserLoadFlag \/ ParserReadByte \/ ParserReadEnd \/ ParserReadErr
    \/ DoWriteWait \/ DoWriteJoin \/ DoWriteSync \/ DoWriteDone
    \/ HandlerStore \/ HandlerExit

SpecStop ==
    /\ InitStop
    /\ [][NextStop]_vars
    /\ WF_vars(FlowStep)
    /\ WF_vars(ParserStep)
    /\ WF_vars(HandlerExit)

-----------------------------------------------------------------------------
(* SpecTransport: detect_transport on one resolved path, and the loop body *)
(* of detect_usb_drives on an entry that passes every other check.         *)

\* path components in one resolved path
MaxHops == 2

\* the components a resolved path is put together from
PathParts == {L_usb, L_ata, L_nvme, L_mmc, L_musb, L_pci}

\* what fs::canonicalize returns: Ok(real), or an error (None)
ResolvedPaths ==
    {Some(Flatten(ss)) : ss \in SeqsUpTo(PathParts, MaxHops) \ {<<>>}} \cup {None}

InitTransport ==
    /\ Idle
    /\ pc = "transport"
    /\ image = None
    /\ dd = NoDd
    /\ parser = "none"
    /\ pos = 0
    /\ bytes = <<>>
    /\ lineBuf = <<>>
    /\ consumed = <<>>
    /\ offsets = <<>>
    /\ imgData = <<>>
    /\ media = <<>>
    /\ readBack = None
    /\ loads = 0
    /\ real \in ResolvedPaths
    /\ transportStr = ""
    /\ md5File = <<>>
    /\ md5Pipe = <<>>

\* one call of detect_transport
TransportDetect ==
    /\ pc = "transport"
    /\ transportStr' = detect_transport(real)
    /\ pc' = "transport_done"
    /\ UNCHANGED <<image, dd, parser, pos, bytes, lineBuf, consumed, offsets,
                   imgData, media, readBack, loads, real, md5File, md5Pipe,
                   idleVars>>

\* the loop body of detect_usb_drives for a removable entry of 100 MB with a
\* device node whose device link resolves to real
TransportScan ==
    /\ pc = "transport_done"
    /\ devices' = ScanEntry(<<>>, [E_stick EXCEPT !.link = real])
    /\ pc' = "scanned"
    /\ UNCHANGED <<cli, op, verify, device, confirm, trace, out, result, isoMd5,
                   pipe, joined, running, catVars, image, dd, parser, pos,
                   byteVars>>

NextTransport == TransportDetect \/ TransportScan

SpecTransport == InitTransport /\ [][NextTransport]_vars

-----------------------------------------------------------------------------
(* SpecDigest: the two digest strings of do_verify, taken from what the two *)
(* runs of md5sum wrote to their stdout, and their comparison.              *)

\* pieces of text in one output of md5sum
MaxWords == 2

\* two digests, the separator, the name md5sum prints for its stdin, the end
\* of the line
OutputParts == {<<"a", "b">>, <<"c", "d">>, <<" ", " ">>, <<"-">>, <<"\n">>}

\* what a run of md5sum can leave on its stdout (nothing when it failed)
ToolOutputs == {Flatten(ss) : ss \in SeqsUpTo(OutputParts, MaxWords)}

InitDigest ==
    /\ Idle
    /\ pc = "digest_file"
    /\ image = None
    /\ dd = NoDd
    /\ parser = "none"
    /\ pos = 0
    /\ bytes = <<>>
    /\ lineBuf = <<>>
    /\ consumed = <<>>
    /\ offsets = <<>>
    /\ imgData = <<>>
    /\ media = <<>>
    /\ readBack = None
    /\ loads = 0
    /\ real = None
    /\ transportStr = ""
    /\ md5File \in ToolOutputs
    /\ md5Pipe \in ToolOutputs

\* String::from_utf8_lossy(&out.stdout).split_whitespace().next().unwrap_or("")
md5sum_file(stdout) ==
    LET t == FirstToken(stdout) IN IF t = None THEN <<>> ELSE Get(t)

\* a mutation of usb_md5: the default for no token is the empty string
usb_md5_EmptyDefault(stdout) ==
    LET t == FirstToken(stdout) IN IF t = None THEN <<>> ELSE Get(t)

\* String::from_utf8_lossy(&md5out.stdout).split_whitespace().next()
\*     .unwrap_or("error")
usb_md5(stdout) ==
    LET t == FirstToken(stdout)
    IN  IF t = None THEN <<"e", "r", "r", "o", "r">> ELSE Get(t)

\* let iso_md5 = md5sum_file(input)?
DigestFile ==
    /\ pc = "digest_file"
    /\ \/ /\ result' = Err("md5sum not found", 1)
          /\ pc' = "digest_done"
          /\ UNCHANGED isoMd5
       \/ /\ isoMd5' = md5sum_file(md5File)
          /\ pc' = "digest_pipe"
          /\ UNCHANGED result
    /\ UNCHANGED <<cli, op, verify, devices, device, confirm, trace, out, pipe,
                   joined, running, catVars, image, dd, parser, pos, byteVars>>

\* the digest of the read-back and the comparison
DigestCompare ==
    /\ pc = "digest_pipe"
    /\ result' = IF DigestsEqual(isoMd5, usb_md5(md5Pipe))
                 THEN Ok
                 ELSE Err("MD5 mismatch", 1)
    /\ pc' = "digest_done"
    /\ UNCHANGED <<cli, op, verify, devices, device, confirm, trace, out, isoMd5,
                   pipe, joined, running, catVars, image, dd, parser, pos,
                   byteVars>>

NextDigest == DigestFile \/ DigestCompare

SpecDigest == InitDigest /\ [][NextDigest]_vars

-----------------------------------------------------------------------------
(* Claims about the Device Catalog, checked under SpecCatalog. *)

DeviceSet == {devices[i] : i \in 1..Len(devices)}

\* C3: every device in the output of detect_usb_drives has removable = true,
\* transport = "usb", size >= 100,000,000 bytes, and a device node at its path.
C3_CatalogInvariant ==
    \A d \in DeviceSet :
        /\ d.removable = TRUE
        /\ d.transport = "usb"
        /\ d.size >= 100000000
        /\ d.name \in devNodes
        /\ d.path = DevPath(d.name)

\* C3 witness: the enumeration has returned two devices, one of exactly the
\* smallest size that is kept.
C3_Witness ==
    /\ pc = "detected"
    /\ Len(devices) = 2
    /\ \E d \in DeviceSet : d.size = 100000256

\* C4: no entry whose name starts with loop, ram, zram, dm-, md or sr is in the
\* output, whatever its other attributes are.
C4_SkippedNamesAbsent ==
    \A d \in DeviceSet :
        /\ ~StartsWith(d.name, <<"l", "o", "o", "p">>)
        /\ ~StartsWith(d.name, <<"r", "a", "m">>)
        /\ ~StartsWith(d.name, <<"z", "r", "a", "m">>)
        /\ ~StartsWith(d.name, <<"d", "m", "-">>)
        /\ ~StartsWith(d.name, <<"m", "d">>)
        /\ ~StartsWith(d.name, <<"s", "r">>)

\* C4 witness: the enumeration has returned after reading an entry named sr0
\* that is removable, on usb, with a device node and large enough, and one
\* other entry, which it kept.
C4_Witness ==
    /\ pc = "detected"
    /\ N_sr0 \in usable
    /\ Len(devices) = 1

-----------------------------------------------------------------------------
(* Claims about one invocation, checked under Spec. *)

\* positions in trace of the events of kind o
Ops(o) == {i \in 1..Len(trace) : trace[i].op = o}
Has(o) == Ops(o) # {}

\* the answer given to a prompt, "unasked" when it was not shown
Answer(which) ==
    IF Has(which) THEN trace[CHOOSE i \in Ops(which) : TRUE].arg.answer ELSE "unasked"

Touched ==
    Has("umount") \/ Has("dd_copy") \/ Has("sync") \/ Has("dd_read")
        \/ Has("md5sum_file") \/ Has("md5sum_pipe")

Prompted == Has("prompt1") \/ Has("prompt2")

InDoWrite == pc \in {"do_write", "dry_run", "wait_dd", "join", "sync", "all_done"}

\* C1: in the write command the copy's destination is the path of an enumerated
\* device; a --device path that matches no enumerated device ends the command
\* with an error, with no prompt, unmount, copy, sync or verify.
C1_CopyTargetEnumerated ==
    Args.command = "write" =>
        /\ \A i \in Ops("dd_copy") :
              \E d \in DeviceSet : trace[i].arg[2] = <<"of", d.path>>
        /\ ( /\ Args.device # None
             /\ \A d \in DeviceSet : d.path # Get(Args.device) )
           => /\ ~Prompted
              /\ ~Touched
              /\ ~InDoWrite
              /\ pc = "done" => result.kind = "err"

\* C1 witness: the write command was given --device, two devices were
\* enumerated, and the copy has been started on the one the path names.
C1_Witness ==
    /\ Args.command = "write"
    /\ Args.device = Some(DevPath(N_sdb))
    /\ Len(devices) = 2
    /\ Has("dd_copy")

\* C2: unmount and copy start only after safety_confirm returned true for the
\* same image and device (the image fits, both prompts were answered yes); when
\* it returns false or fails, no unmount, copy, sync or verify is invoked.
C2_WriteOnlyAfterConfirmation ==
    /\ (InDoWrite \/ Has("umount") \/ Has("dd_copy")) =>
          /\ confirm = "true"
          /\ Get(Get(image).size) <= Get(device).size
          /\ \A k \in Ops("umount") \cup Ops("dd_copy") :
                \E j \in 1..(k - 1) :
                    /\ trace[j].op = "prompt2"
                    /\ trace[j].arg = [device |-> Get(device).path, answer |-> "yes"]
                    /\ \E i \in 1..(j - 1) :
                          /\ trace[i].op = "prompt1"
                          /\ trace[i].arg = [device |-> Get(device).path,
                                             answer |-> "yes"]
          /\ \A k \in Ops("dd_copy") :
                /\ trace[k].arg[1] = <<"if", Get(image).path>>
                /\ trace[k].arg[2] = <<"of", Get(device).path>>
    /\ confirm \in {"false", "err"} => ~Touched /\ ~InDoWrite

\* C2 witness: the wizard's write has unmounted a partition and started the copy.
C2_Witness ==
    /\ Args.command = "wizard"
    /\ Has("umount")
    /\ Has("dd_copy")

Sized == image # None /\ device # None /\ Get(image).size # None

\* C5: an image larger than the device makes safety_confirm return false with
\* neither prompt issued; an image that fits gets the first prompt.
C5_SizeCheckBeforePrompts ==
    (op = "write" /\ Sized) =>
        LET iso_bytes == Get(Get(image).size)
        IN  /\ iso_bytes > Get(device).size =>
                /\ ~Prompted
                /\ pc \notin {"confirm_first", "confirm_second"}
                /\ confirm \in {"none", "false"}
                /\ pc = "confirm_ret" => confirm = "false"
            /\ (iso_bytes <= Get(device).size /\ pc # "confirm") =>
                (Has("prompt1") \/ pc \in {"confirm_first", "exited"})
            /\ (iso_bytes <= Get(device).size /\ confirm # "none") => Has("prompt1")

\* C5 witness: safety_confirm has returned for an image one byte larger than
\* the device.
C5_Witness ==
    /\ pc = "confirm_ret"
    /\ Sized
    /\ Get(Get(image).size) = Get(device).size + 1
    /\ confirm = "false"

\* C6: a "no" to the first prompt makes safety_confirm return false and the
\* second prompt is never issued; the second prompt follows a "yes" to the first.
C6_SecondPromptOnlyAfterYes ==
    /\ Answer("prompt1") = "no" => (confirm = "false" /\ ~Has("prompt2"))
    /\ \A j \in Ops("prompt2") :
          \E i \in 1..(j - 1) :
              trace[i].op = "prompt1" /\ trace[i].arg.answer = "yes"
    /\ Cardinality(Ops("prompt1")) <= 1
    /\ Cardinality(Ops("prompt2")) <= 1

\* C6 witness: the first prompt was declined and the command has ended.
C6_Witness ==
    /\ Answer("prompt1") = "no"
    /\ pc = "done"
    /\ result.kind = "ok"

\* C7: for an image that can be stat'ed, safety_confirm returns true exactly
\* when the image fits and both prompts were answered yes; every other
\* combination of answers returns false.
C7_ConfirmTrueIffBothYes ==
    (Sized /\ confirm # "none") =>
        LET fits == Get(Get(image).size) <= Get(device).size
            first == Answer("prompt1")
            second == Answer("prompt2")
            allYes == fits /\ first = "yes" /\ second = "yes"
        IN  /\ confirm = "true" <=> allYes
            /\ (~allYes /\ first # "err" /\ second # "err") => confirm = "false"
            /\ confirm = "err" <=> "err" \in {first, second}

\* C7 witness: safety_confirm has returned true for an image of exactly the
\* device's size.
C7_Witness ==
    /\ pc = "confirm_ret"
    /\ confirm = "true"
    /\ Get(Get(image).size) = Get(device).size

\* C8: with dry_run set, do_write invokes no unmount tool, no copy, no sync and
\* no read-back of the device, and emits exactly one command line before it
\* returns success.
C8_DryRunInvokesNothing ==
    (op = "write" /\ Args.dry_run) =>
        /\ ~Has("umount")
        /\ ~Has("dd_copy")
        /\ ~Has("sync")
        /\ ~Has("dd_read")
        /\ ~Has("md5sum_pipe")
        /\ (pc = "done" /\ confirm = "true" /\ result.kind = "ok") => Len(out) = 1

\* C9: the command line emitted in dry-run mode is dd with exactly the argument
\* list do_write passes to the copy subprocess:
\* if=<image> of=<device> bs=4M status=progress.
C9_DryRunLineIsCopyCommand ==
    \A i \in 1..Len(out) :
        out[i].kind = "dry_run" =>
            /\ out[i].tool = "dd"
            /\ out[i].args = CopyArgs(Get(image), Get(device))
            /\ out[i].args = << <<"if", Get(image).path>>, <<"of", Get(device).path>>,
                                <<"bs", "4M">>, <<"status", "progress">> >>

\* C10: when the copy subprocess exits with a failure status, do_write returns
\* an error carrying the exit code, and neither sync nor verify is invoked.
C10_CopyFailureStopsWrite ==
    (dd.kind = "copy" /\ dd.state = "exited" /\ dd.code # Some(0)) =>
        /\ ~Has("sync")
        /\ ~Has("dd_read")
        /\ ~Has("md5sum_file")
        /\ ~Has("md5sum_pipe")
        /\ pc \notin {"sync", "do_verify", "verify_spawn", "verify_wait",
                     "verify_cmp", "all_done"}
        /\ pc = "done" =>
              /\ result.kind = "err"
              /\ result.why = "dd failed"
              /\ result.code = IF dd.code = None THEN -1 ELSE Get(dd.code)

\* C10 witness: verify was requested, the copy was killed by a signal, and
\* do_write has returned the error with code -1.
C10_Witness ==
    /\ pc = "done"
    /\ verify
    /\ dd.kind = "copy"
    /\ dd.code = None
    /\ result = Err("dd failed", -1)

\* C11: after the copy has exited with success the buffer flush is invoked
\* and has ended before the write is declared complete to the user and before
\* the read-back is spawned; no completion of the write is shown while the
\* flush has not run.
C11_FlushBeforeComplete ==
    /\ \A k \in Ops("message") :
          trace[k].arg \in {"Write complete!", "ALL DONE"} =>
              \E i \in 1..(k - 1) : trace[i].op = "sync"
    /\ \A k \in Ops("dd_read") :
          Has("dd_copy") => \E i \in 1..(k - 1) : trace[i].op = "sync"

CopySucceeded ==
    \E i \in Ops("dd_exit") : trace[i].arg = [kind |-> "copy", code |-> Some(0)]

\* C12: with verify set and the copy exited with success, what do_write returns
\* is what do_verify returned: success only if the two digests were equal, the
\* verification error when they differ.
C12_WriteResultIsVerifyResult ==
    (op = "write" /\ verify /\ CopySucceeded /\ pc = "done") =>
        /\ result.kind = "ok" <=>
              \E k \in Ops("md5sum_out") : trace[k].arg = isoMd5
        /\ (\E k \in Ops("md5sum_out") : trace[k].arg # isoMd5) =>
              result = Err("MD5 mismatch", 1)
        /\ result.kind = "ok" => Has("sync") /\ Has("dd_read")

\* C12 witness: the copy succeeded, the digests differed, and the write command
\* has returned the verification error.
C12_Witness ==
    /\ pc = "done"
    /\ op = "write"
    /\ verify
    /\ CopySucceeded
    /\ \E k \in Ops("md5sum_out") : trace[k].arg = "d_other" /\ isoMd5 = "d_image"
    /\ result = Err("MD5 mismatch", 1)

\* C15: when the read-back dd exits with a failure status, do_verify returns a
\* subprocess-exit failure that carries the exit code, not the outcome of the
\* digest comparison.
C15_ReadFailureIsExitFailure ==
    (pc = "done" /\ Has("md5sum_out") /\ dd.kind = "read" /\ dd.code # Some(0)) =>
        /\ result.kind = "err"
        /\ result.why # "MD5 mismatch"
        /\ result.code = IF dd.code = None THEN -1 ELSE Get(dd.code)

\* C17: when the enumeration returns no device, the write, info and wizard
\* paths that need one do not end the process with an error result.
C17_EmptyCatalogNotFatal ==
    ( /\ pc = "done"
      /\ op \in {"write", "verify", "info"}
      /\ Args.device = None
      /\ \E i \in Ops("detect") : trace[i].arg = 0 )
    => result.kind # "err"

\* the offsets dd has reported on its stderr are in non-decreasing order and
\* none is above the size of the image
ReportsInOrder ==
    LET val(i) == LineOffset(dd.sent[i])
    IN  \A i \in 1..Len(dd.sent) :
            val(i) # None =>
                /\ Get(val(i)) <= Get(Get(image).size)
                /\ \A j \in 1..i : val(j) # None => Get(val(j)) <= Get(val(i))

\* C18: during a write and during a verify no update of the progress offset,
\* by the parser or by the controlling flow, lowers it, in any interleaving of
\* the two (the offsets dd reports being themselves in order).
C18_OffsetNeverLowered ==
    [][ ( /\ dd.kind \in {"copy", "read"}
          /\ dd' = dd
          /\ ReportsInOrder )
        => pos' >= pos ]_vars

\* C19: the progress offset never exceeds the size of the image, whatever
\* integers dd's progress stream carries.
C19_OffsetWithinTotal ==
    (dd.kind \in {"copy", "read"} /\ Sized) => pos <= Get(Get(image).size)

\* C20: at most one subprocess the program started has the device open at any
\* moment, an interrupt included: every umount has ended before the copy is
\* spawned (umount is run with status(), which waits for it), and the copy has
\* exited before the read-back is spawned.
C20_OneDeviceHolder ==
    /\ Cardinality(Ops("dd_copy")) + Cardinality(Ops("dd_read"))
          - Cardinality(Ops("dd_exit")) <= 1
    /\ \A u \in Ops("umount") :
          \A c \in Ops("dd_copy") \cup Ops("dd_read") : u < c
    /\ \A r \in Ops("dd_read") :
          \A c \in Ops("dd_copy") :
              /\ c < r
              /\ \E x \in (c + 1)..(r - 1) :
                    trace[x].op = "dd_exit" /\ trace[x].arg.kind = "copy"

\* C20 witness: the copy has exited, the read-back was spawned, and the program
\* was interrupted while the read-back still runs.
C20_Witness ==
    /\ pc = "exited"
    /\ Has("umount")
    /\ Has("dd_copy")
    /\ Has("dd_read")
    /\ dd.kind = "read"
    /\ dd.state = "running"

-----------------------------------------------------------------------------
(* Claims about the read-back, checked under SpecVerify. *)

\* the first N bytes of the device, N the length of the image
DevicePrefix == SubSeq(media, 1, Len(imgData))

\* C13: for an image of N bytes and a device of at least N bytes, do_verify
\* returns success when the first N bytes of the device equal the image and
\* the mismatch error when one of them differs.
C13_VerifyDecidesPrefix ==
    (pc = "vfy_done" /\ Len(media) >= Len(imgData)) =>
        /\ DevicePrefix = imgData => result = Ok
        /\ DevicePrefix # imgData => result = Err("MD5 mismatch", 1)

\* C14: the read-back reads exactly the first N bytes of the device, N the
\* length of the image: no byte at offset N or above enters the digest.
C14_ReadsExactlyImageLength ==
    readBack # None =>
        /\ Len(Get(readBack)) <= Len(imgData)
        /\ Get(readBack) = DevicePrefix

-----------------------------------------------------------------------------
(* Claims about the progress parser, checked under SpecParser. *)

\* the lines of s: the maximal runs of bytes ended by \r or \n (cur is the
\* run being read)
RECURSIVE CompleteLines(_, _)
CompleteLines(s, cur) ==
    IF s = <<>> THEN <<>>
    ELSE IF Head(s) \in {"\r", "\n"}
         THEN <<cur>> \o CompleteLines(Tail(s), <<>>)
         ELSE CompleteLines(Tail(s), Append(cur, Head(s)))

\* the first whitespace-delimited token of l, commas removed, as an integer
LeadingInteger(l) ==
    LET tok == FirstToken(Trim(l))
    IN  IF tok = None THEN None ELSE ParseU64(RemoveCommas(Get(tok)))

IsProgressLine(l) ==
    /\ Contains(Trim(l), W_bytes)
    /\ Contains(Trim(l), W_copied)
    /\ LeadingInteger(l) # None

RECURSIVE ExpectedOffsets(_)
ExpectedOffsets(ls) ==
    IF ls = <<>> THEN <<>>
    ELSE (IF IsProgressLine(Head(ls)) THEN <<Get(LeadingInteger(Head(ls)))>> ELSE <<>>)
             \o ExpectedOffsets(Tail(ls))

\* C16: the parser emits an offset for a line exactly when the trimmed line
\* contains "bytes" and "copied" and its first token, commas removed, parses
\* as an unsigned integer; the offset is that integer; any other line leaves
\* the progress position as it was.
C16_ParserEmitsLeadingInteger ==
    /\ offsets = ExpectedOffsets(CompleteLines(consumed, <<>>))
    /\ pos = IF offsets = <<>> THEN 0 ELSE offsets[Len(offsets)]

\* C16 witness: the parser has read the line "2,3 bytes copied" ended by \r,
\* has set the offset 23, and has left its loop at the end of the stream.
C16_Witness ==
    /\ parser = "done"
    /\ consumed = K_two \o K_line \o K_cr
    /\ offsets = <<23>>
    /\ pos = 23

-----------------------------------------------------------------------------
(* Claims about subprocesses, threads and the unmount phase, checked under *)
(* Spec.                                                                   *)

\* the subprocesses do_write and do_verify spawn and keep as a Child
Spawns == {"dd_copy", "dd_read", "md5sum_pipe"}

\* do_write or do_verify has returned to main (the process has not exited
\* from the Ctrl-C handler)
Returned == pc = "done" /\ result.kind \in {"ok", "err"}

\* C21: when do_write or do_verify has returned, on the success path or on an
\* error path, every subprocess it spawned (copy, read, digest) has been
\* waited on.
C21_SpawnedIsWaited ==
    Returned =>
        \A i \in 1..Len(trace) :
            trace[i].op \in Spawns =>
                \E k \in (i + 1)..Len(trace) :
                    trace[k].op = "wait" /\ trace[k].arg = trace[i].op

\* C22: the controlling flow has joined the parser thread it started before it
\* goes on: when do_write is at the sync and when do_verify compares the
\* digests and has returned, the parser thread of that operation has ended.
C22_ParserJoinedBeforeContinuing ==
    /\ pc = "sync" => parser = "done" /\ joined
    /\ (pc = "verify_cmp" \/ (Returned /\ Has("md5sum_out"))) =>
           parser = "done" /\ joined

\* the text left of s after its first n characters
Rest(s, n) == SubSeq(s, n + 1, Len(s))

AllDigits(s) == s # <<>> /\ \A i \in 1..Len(s) : s[i] \in Digits

\* src names the device at path itself or one of its partitions: the path
\* followed by the partition number, with a p between the two when the path
\* ends in a digit
IsDeviceOrPartition(src, path) ==
    \/ src = path
    \/ /\ StartsWith(src, path)
       /\ LET rest == Rest(src, Len(path))
          IN  IF path[Len(path)] \in Digits
              THEN rest # <<>> /\ Head(rest) = "p" /\ AllDigits(Tail(rest))
              ELSE AllDigits(rest)

\* C25: the unmount phase hands to umount only mount points whose source is
\* the target device or one of its partitions; a mount of another device
\* whose path begins with the target's path is not unmounted.
C25_UnmountsOnlyTarget ==
    \A i \in Ops("umount") :
        IsDeviceOrPartition(trace[i].arg.source, Get(device).path)

-----------------------------------------------------------------------------
(* Claims about the end of the parser thread, checked under SpecStop. *)

\* why the parser thread left its loop
StopCause ==
    {trace[i].arg : i \in Ops("parser_stop")}

\* reads the parser thread has begun: one per byte read, and the one it is in
\* or that ended the loop
ReadsBegun ==
    Len(consumed) + (IF parser = "read" \/ StopCause \in {{"closed"}, {"error"}}
                     THEN 1 ELSE 0)

\* the parser stops only at a closed stream, a read error or the flag seen
\* false, and has tested the flag before each read of one byte
StopsForCause ==
    /\ parser = "done" =>
          \/ StopCause = {"closed"} /\ Exited(dd) /\ bytes = <<>>
          \/ StopCause = {"error"}
          \/ StopCause = {"flag"} /\ ~running
    /\ parser # "done" => StopCause = {}
    /\ loads = ReadsBegun

\* do_write has returned with its parser ended and joined, or the process has
\* exited from the Ctrl-C handler
WriteEnded ==
    \/ result.kind = "exit"
    \/ Returned /\ parser = "done" /\ joined

\* C23: the parser thread stops when the stream closes, when a read fails or
\* when it sees the flag false, and it tests the flag before every read of
\* one byte; once the copy has exited (its stream closes when what it wrote
\* has been read) the parser ends, the join completes and do_write returns.
C23_ParserStopsAndWriteReturns ==
    /\ []StopsForCause
    /\ (dd.kind = "copy" /\ Exited(dd)) ~> WriteEnded

\* C23 witness: the copy has exited, the parser has read a progress line to
\* the closed end of the stream, and do_write has joined it and returned.
C23_Witness ==
    /\ Returned
    /\ Exited(dd)
    /\ StopCause = {"closed"}
    /\ offsets = <<3>>
    /\ joined
    /\ result = Ok

-----------------------------------------------------------------------------
(* Claims about detect_transport, checked under SpecTransport. *)

\* the resolved path exists and contains the pattern
Found(pat) == real # None /\ Contains(Get(real), pat)

\* the result is "usb" exactly when usbPat is found, else the first of nvme,
\* mmc, ata that is found, else "unknown"; an entry is pushed only for "usb"
TransportAsStated(usbPat) ==
    LET usb  == Found(usbPat)
        nvme == Found(<<"n", "v", "m", "e">>)
        mmc  == Found(<<"m", "m", "c">>)
        ata  == Found(<<"a", "t", "a">>)
    IN  /\ transportStr = "usb" <=> usb
        /\ transportStr = "nvme" <=> ~usb /\ nvme
        /\ transportStr = "mmc" <=> ~usb /\ ~nvme /\ mmc
        /\ transportStr = "ata" <=> ~usb /\ ~nvme /\ ~mmc /\ ata
        /\ transportStr = "unknown" <=> ~usb /\ ~nvme /\ ~mmc /\ ~ata
        /\ devices # <<>> => transportStr = "usb"
        /\ pc = "scanned" /\ transportStr = "usb" => Len(devices) = 1

\* C24 as stated: detect_transport returns "usb" exactly when the resolved
\* path contains the substring usb, otherwise the first of nvme, mmc, ata
\* found, and "unknown" when none is found or the link cannot be resolved; a
\* device is enumerated only when the result is "usb".
C24_UsbIffContainsUsb ==
    pc # "transport" => TransportAsStated(<<"u", "s", "b">>)

\* C24 amended: detect_transport returns "usb" exactly when the resolved path
\* contains the substring /usb (usb at the start of a path component),
\* otherwise the first of nvme, mmc, ata found, and "unknown" when none is
\* found or the link cannot be resolved; a device is enumerated only when the
\* result is "usb".
C24_UsbIffContainsSlashUsb ==
    pc # "transport" => TransportAsStated(<<"/", "u", "s", "b">>)

\* C24 witness: a path with usb inside a component and an ata component was
\* resolved to "ata", and the entry was not enumerated.
C24_Witness ==
    /\ pc = "scanned"
    /\ real = Some(L_musb \o L_ata)
    /\ transportStr = "ata"
    /\ devices = <<>>

-----------------------------------------------------------------------------
(* Claims about the digest strings, checked under SpecDigest. *)

\* the output holds no token: it is empty or all whitespace
NoToken(stdout) == \A i \in 1..Len(stdout) : IsSpace(stdout[i])

\* C26: do_verify does not return success when a run of md5sum produced no
\* digest token: with no token for the image file or none for the piped
\* read-back the two strings compared differ, and the result is the mismatch
\* error.
C26_NoTokenIsMismatch ==
    (pc = "digest_done" /\ (NoToken(md5File) \/ NoToken(md5Pipe))) =>
        /\ result # Ok
        /\ result.why # "md5sum not found" => result = Err("MD5 mismatch", 1)

\* C26 witness: neither run of md5sum produced a token, the strings "" and
\* "error" were compared, and the mismatch error was returned.
C26_Witness ==
    /\ pc = "digest_done"
    /\ md5File = <<>>
    /\ md5Pipe = <<"\n">>
    /\ result = Err("MD5 mismatch", 1)
    /\ isoMd5 = <<>>

=============================================================================
